---- MODULE Spec2Model ----
(***************************************************************************)
(* The quota tracker and the request handler of src/api/handler.js: the    *)
(* in-memory RequestTracker, the upstream client callCheckoAPI and the     *)
(* four endpoints (check-connection, company, finances, batch).  A request *)
(* runs synchronously between its awaits on the upstream call, so each     *)
(* action is one such synchronous segment; several requests may be         *)
(* suspended on their upstream call at once.                               *)
(***************************************************************************)
EXTENDS Integers, Sequences, FiniteSets, Bags, TLC

(* ------------------------------ bounds -------------------------------- *)

\* Days are numbered 0..MaxDay; the model starts on day 1.
MaxDay == 2
\* The longest innList a batch request carries.
MaxBatch == 2
\* Requests handled in one behaviour; all of them may be in flight at once.
MaxRequests == 2
\* Consecutive increment calls of one credential followed on one day.
MaxConsecutive == 3
\* The tracker starts with a count within MaxSeedGap of the daily limit.
MaxSeedGap == 2

(* --------------------------- program constants ------------------------ *)

\* handler.js:38, Math.max(0, 100 - used)
DAILY_LIMIT == 100

ApiKeys == {"k1", "k2"}
\* The identifiers a batch may carry, in the order it carries them.
InnOrder == <<"i1", "i2", "i3", "i4">>
\* handler.js:192
testINN == "7735560386"
Days == 0..MaxDay

VARIABLES
    requests,       \* tracker.requests: the Map digest -> {date, count}
    today,          \* the UTC date the clock shows
    inflight,       \* bag of the requests suspended on their upstream call
    response,       \* the response sent last, with the request it answers
    started,        \* number of requests received so far
    responses,      \* number of responses sent so far
    upstreamCalls,  \* history: upstream calls made today, per credential
    increments,     \* history: tracker.increment calls made today, per credential
    recorded        \* history: the credentials tracker.increment was called for

vars == <<requests, today, inflight, response, started, responses,
          upstreamCalls, increments, recorded>>

(* --------------------------- RequestTracker --------------------------- *)

\* getKey: the SHA-256 hex digest of the credential, a value that is not the
\* credential and is a function of it alone.
getKeyColliding(apiKey) == <<"sha256", "">>

getKey(apiKey) == <<"sha256", apiKey>>

getCountIgnoresDate(reqs, apiKey, now) ==
    LET key == getKey(apiKey) IN
    IF key \notin DOMAIN reqs
    THEN 0
    ELSE reqs[key].count

getCount(reqs, apiKey, now) ==
    LET key == getKey(apiKey) IN
    IF key \notin DOMAIN reqs \/ reqs[key].date # now
    THEN 0
    ELSE reqs[key].count

\* increment: the store after the call.
incrementCarriesOver(reqs, apiKey, now) ==
    LET key == getKey(apiKey) IN
    IF key \notin DOMAIN reqs
    THEN (key :> [date |-> now, count |-> 1]) @@ reqs
    ELSE [reqs EXCEPT ![key] = [date |-> now, count |-> reqs[key].count + 1]]

incrementRestarts(reqs, apiKey, now) ==
    (getKey(apiKey) :> [date |-> now, count |-> 1]) @@ reqs

incrementCapped(reqs, apiKey, now) ==
    LET key == getKey(apiKey) IN
    IF key \notin DOMAIN reqs \/ reqs[key].date # now
    THEN (key :> [date |-> now, count |-> 1]) @@ reqs
    ELSE IF reqs[key].count >= DAILY_LIMIT
         THEN reqs
         ELSE [reqs EXCEPT ![key].count = @ + 1]

increment(reqs, apiKey, now) ==
    LET key == getKey(apiKey) IN
    IF key \notin DOMAIN reqs \/ reqs[key].date # now
    THEN (key :> [date |-> now, count |-> 1]) @@ reqs
    ELSE [reqs EXCEPT ![key].count = @ + 1]

\* increment: the value it returns.
incrementResultBefore(reqs, apiKey, now) ==
    LET key == getKey(apiKey) IN
    IF key \notin DOMAIN reqs \/ reqs[key].date # now
    THEN 1
    ELSE reqs[key].count

incrementResult(reqs, apiKey, now) ==
    LET key == getKey(apiKey) IN
    IF key \notin DOMAIN reqs \/ reqs[key].date # now
    THEN 1
    ELSE reqs[key].count + 1

Max(a, b) == IF a >= b THEN a ELSE b

getRemainingRequestsOffByOne(reqs, apiKey, now) ==
    LET used == getCount(reqs, apiKey, now) IN
    Max(0, DAILY_LIMIT + 1 - used)

getRemainingRequestsUnclamped(reqs, apiKey, now) ==
    LET used == getCount(reqs, apiKey, now) IN
    DAILY_LIMIT - used

getRemainingRequests(reqs, apiKey, now) ==
    LET used == getCount(reqs, apiKey, now) IN
    Max(0, DAILY_LIMIT - used)

\* new Date(): the date a later clock reading of the same segment may show.
Later(d) == {e \in d..(d + 1) : e <= MaxDay}

(* ----------------------------- callCheckoAPI -------------------------- *)

\* today_request_count in the upstream answer; 0 stands for an absent or zero
\* figure, which `||` treats alike.
MetaCounts == {0, 7}

\* What upstream may answer to one fetch: status 0 is a transport failure
\* (fetch rejects), balance0 is meta.balance === 0 in the error body,
\* hasData is a non-empty data object.
Outcomes ==
    {[status |-> 200, balance0 |-> FALSE, hasData |-> h, meta |-> m] :
        h \in BOOLEAN, m \in MetaCounts}
    \cup {[status |-> s, balance0 |-> FALSE, hasData |-> FALSE, meta |-> 0] :
        s \in {0, 400, 401, 403, 429}}
    \cup {[status |-> 400, balance0 |-> TRUE, hasData |-> FALSE, meta |-> 0]}

\* The answers explored for the calls of a batch: data, no data, a rejected
\* credential and a transport failure.
BatchOutcomes == {o \in Outcomes : o.meta = 0 /\ o.status \in {0, 200, 401}}

\* response.ok
ResponseOk(o) == o.status >= 200 /\ o.status <= 299

\* createError(message, statusCode): statusCode 0 stands for an Error that has
\* no statusCode (a rejected fetch).
createError(message, statusCode) ==
    [threw |-> TRUE, message |-> message, statusCode |-> statusCode,
     hasData |-> FALSE, meta |-> 0]

\* `x || 500`
OrDefault(statusCode) == IF statusCode = 0 THEN 500 ELSE statusCode

\* callCheckoAPI: the payload it returns or the error it throws.
callCheckoAPIKeeps403(o) ==
    IF o.status = 0 THEN createError("fetch failed", 0)
    ELSE IF ~ResponseOk(o) THEN
        IF o.status = 401
            THEN createError("invalid api key", 401)
        ELSE IF o.status = 429
            THEN createError("upstream rate limit", 429)
        ELSE IF o.status = 400 /\ o.balance0
            THEN createError("zero balance", 402)
        ELSE createError("upstream error", OrDefault(o.status))
    ELSE [threw |-> FALSE, message |-> "", statusCode |-> 0,
          hasData |-> o.hasData, meta |-> o.meta]

callCheckoAPIDropsMeta(o) ==
    IF o.status = 0 THEN createError("fetch failed", 0)
    ELSE IF ~ResponseOk(o) THEN
        IF o.status = 401 \/ o.status = 403
            THEN createError("invalid api key", 401)
        ELSE IF o.status = 429
            THEN createError("upstream rate limit", 429)
        ELSE IF o.status = 400 /\ o.balance0
            THEN createError("zero balance", 402)
        ELSE createError("upstream error", OrDefault(o.status))
    ELSE [threw |-> FALSE, message |-> "", statusCode |-> 0,
          hasData |-> o.hasData, meta |-> 0]

callCheckoAPI(o) ==
    IF o.status = 0 THEN createError("fetch failed", 0)
    ELSE IF ~ResponseOk(o) THEN
        IF o.status = 401 \/ o.status = 403
            THEN createError("invalid api key", 401)
        ELSE IF o.status = 429
            THEN createError("upstream rate limit", 429)
        ELSE IF o.status = 400 /\ o.balance0
            THEN createError("zero balance", 402)
        ELSE createError("upstream error", OrDefault(o.status))
    ELSE [threw |-> FALSE, message |-> "", statusCode |-> 0,
          hasData |-> o.hasData, meta |-> o.meta]

(* ------------------------------ requests ------------------------------ *)

Paths == {"/api/check-connection", "/api/company", "/api/finances",
          "/api/batch", "/api/unknown", "/api/company/check-connection"}

\* path.includes(marker)
Includes(path, marker) ==
    CASE marker = "/check-connection" ->
            path \in {"/api/check-connection", "/api/company/check-connection"}
      [] marker = "/company" ->
            path \in {"/api/company", "/api/company/check-connection"}
      [] marker = "/finances" -> path = "/api/finances"
      [] marker = "/batch" -> path = "/api/batch"
      [] OTHER -> FALSE

\* The endpoint the handler's chain of path tests selects.
Route(path) ==
    IF Includes(path, "/check-connection") THEN "check-connection"
    ELSE IF Includes(path, "/company") /\ ~Includes(path, "/check-connection")
        THEN "company"
    ELSE IF Includes(path, "/finances") THEN "finances"
    ELSE IF Includes(path, "/batch") THEN "batch"
    ELSE "unknown"

\* The lists a batch request may carry: distinct identifiers, up to MaxBatch.
InnLists == {SubSeq(InnOrder, 1, n) : n \in 0..MaxBatch}

EmptyBody == [apiKey |-> "", inn |-> "", isArray |-> FALSE, innList |-> <<>>]

\* The body fields of a request: "" is an absent (or empty) string, isArray
\* is Array.isArray(innList).
Fields ==
    {[apiKey |-> k, inn |-> i, isArray |-> FALSE, innList |-> <<>>] :
        k \in ApiKeys \cup {""}, i \in {"", "i1"}}
    \cup {[apiKey |-> k, inn |-> "", isArray |-> TRUE, innList |-> l] :
        k \in {"k1", ""}, l \in InnLists}

\* req.body: an object, a JSON string, the JSON string "null", a string that
\* is not JSON, or nothing.
Post(path, bodyKind, fields) ==
    [method |-> "POST", path |-> path, bodyKind |-> bodyKind, fields |-> fields]

Requests ==
    {Post(p, "object", f) :
        p \in {"/api/check-connection", "/api/company", "/api/finances",
               "/api/batch"}, f \in Fields}
    \cup {Post(p, "json", [EmptyBody EXCEPT !.apiKey = "k2", !.inn = "i1"]) :
        p \in Paths}
    \cup {Post(p, b, EmptyBody) : p \in Paths, b \in {"none", "garbage", "null"}}
    \cup {[Post(p, "none", EmptyBody) EXCEPT !.method = "OPTIONS"] : p \in Paths}

\* The body after the handler's parsing: {} for no body and for a string
\* that JSON.parse rejects.
ParseBody(req) ==
    IF req.bodyKind \in {"object", "json"} THEN req.fields ELSE EmptyBody

\* JSON.parse gave null: destructuring the body throws a TypeError.
BodyIsNull(req) == req.bodyKind = "null"

NoCall == [endpoint |-> "", inn |-> ""]

\* A request as the handler holds it: the endpoint, the body fields, the
\* batch loop's position and lists, the remainingRequests it read before its
\* first call and the tracker reads of that quota check, the upstream call it
\* waits for, and the callCheckoAPI calls, fetches and increments it has made.
NewRequest(endpoint, body) ==
    [endpoint |-> endpoint, apiKey |-> body.apiKey, inn |-> body.inn,
     innList |-> body.innList, idx |-> 0, results |-> <<>>, errors |-> <<>>,
     remainingRequests |-> 0, quotaReads |-> 0, call |-> NoCall, calls |-> 0,
     fetches |-> 0, incs |-> 0]

NoRequest == NewRequest("none", EmptyBody)

NoResponse ==
    [r |-> NoRequest, http |-> 0, status |-> "none", message |-> "",
     figures |-> FALSE, used |-> 0, remaining |-> 0]

\* res.status(200).json({status: 'ok', ...})
jsonOk(r, message, used, remaining) ==
    [r |-> r, http |-> 200, status |-> "ok", message |-> message,
     figures |-> TRUE, used |-> used, remaining |-> remaining]

\* jsonError(res, statusCode, message, extra)
jsonErrorAnswers200(r, statusCode, message, figures, used, remaining) ==
    [r |-> r, http |-> 200, status |-> "error", message |-> message,
     figures |-> figures, used |-> used, remaining |-> remaining]

jsonError(r, statusCode, message, figures, used, remaining) ==
    [r |-> r, http |-> statusCode, status |-> "error", message |-> message,
     figures |-> figures, used |-> used, remaining |-> remaining]

\* The request r suspended on callCheckoAPI(endpoint, apiKey, {inn}), which
\* has issued its `await fetch(url, options)`.
AwaitingProbesVariants(r, endpoint, inn) ==
    [r EXCEPT !.call = [endpoint |-> endpoint, inn |-> inn], !.calls = @ + 1,
              !.fetches = @ + 4]

Awaiting(r, endpoint, inn) ==
    [r EXCEPT !.call = [endpoint |-> endpoint, inn |-> inn], !.calls = @ + 1,
              !.fetches = @ + 1]

\* The histories count the current day: one more for apiKey, and all back to
\* 0 when the day has changed.
Bump(log, apiKey) == [log EXCEPT ![apiKey] = @ + 1]

NoneToday == [k \in ApiKeys |-> 0]

OnDay(log, day) == IF day # today THEN NoneToday ELSE log

(* ------------------------------- Init --------------------------------- *)

\* The counts the tracker may hold for "k1" when the model starts: earlier
\* requests, handled one after another, left a record of yesterday or of
\* today with a count up to the limit.
SeedCounts == (DAILY_LIMIT - MaxSeedGap)..DAILY_LIMIT

SeedStores ==
    {<<>>}
    \cup {(getKey("k1") :> [date |-> 1, count |-> c]) : c \in SeedCounts}
    \cup {(getKey("k1") :> [date |-> 0, count |-> DAILY_LIMIT])}

\* Each counted request of that earlier traffic was one upstream call and
\* one increment.
SeedLog(store) == [k \in ApiKeys |-> getCount(store, k, 1)]

Init ==
    /\ requests \in SeedStores
    /\ today = 1
    /\ inflight = EmptyBag
    /\ response = NoResponse
    /\ started = 0
    /\ responses = 0
    /\ upstreamCalls = SeedLog(requests)
    /\ increments = SeedLog(requests)
    /\ recorded = {k \in ApiKeys : getKey(k) \in DOMAIN requests}

(* ------------------------------ the clock ----------------------------- *)

\* Midnight UTC passes.
Tick ==
    /\ today < MaxDay
    /\ today' = today + 1
    /\ response' = NoResponse
    /\ upstreamCalls' = NoneToday
    /\ increments' = NoneToday
    /\ UNCHANGED <<requests, inflight, started, responses, recorded>>

(* ------------------------- receiving a request ------------------------ *)

CanReceive == started < MaxRequests

\* The request answered at once, with no upstream call and no tracker write.
AnswerPurgesStale(resp, day) ==
    /\ response' = resp
    /\ responses' = responses + 1
    /\ today' = day
    /\ started' = started + 1
    /\ upstreamCalls' = OnDay(upstreamCalls, day)
    /\ increments' = OnDay(increments, day)
    /\ requests' = [key \in {x \in DOMAIN requests : requests[x].date = day}
                        |-> requests[key]]
    /\ UNCHANGED <<inflight, recorded>>

Answer(resp, day) ==
    /\ response' = resp
    /\ responses' = responses + 1
    /\ today' = day
    /\ started' = started + 1
    /\ upstreamCalls' = OnDay(upstreamCalls, day)
    /\ increments' = OnDay(increments, day)
    /\ UNCHANGED <<requests, inflight, recorded>>

\* The request suspended on its first upstream call.
Suspend(r, endpoint, inn) ==
    /\ inflight' = inflight (+) SetToBag({Awaiting(r, endpoint, inn)})
    /\ upstreamCalls' = Bump(upstreamCalls, r.apiKey)
    /\ response' = NoResponse
    /\ started' = started + 1
    /\ UNCHANGED <<requests, today, increments, responses, recorded>>

\* OPTIONS: 200 and no body.
Options(req) ==
    /\ CanReceive
    /\ req.method = "OPTIONS"
    /\ Answer([NoResponse EXCEPT !.r = NewRequest("options", EmptyBody),
                                 !.http = 200], today)

\* The outer catch: the body was the JSON string "null", so destructuring it
\* threw; catchBody is null again and the figures stay 0 and 100.
OuterCatch(req) ==
    /\ CanReceive
    /\ req.method # "OPTIONS"
    /\ BodyIsNull(req)
    /\ Route(req.path) # "unknown"
    /\ Answer(jsonError(NewRequest(Route(req.path), EmptyBody), OrDefault(0),
                        "cannot destructure", TRUE, 0, DAILY_LIMIT), today)

\* No endpoint matches the path.
Unknown(req) ==
    /\ CanReceive
    /\ req.method # "OPTIONS"
    /\ Route(req.path) = "unknown"
    /\ Answer(jsonError(NewRequest("unknown", EmptyBody), 404,
                        "endpoint not found", FALSE, 0, 0), today)

\* check-connection, up to its upstream call.
CheckConnectionUsesBodyInn(req) ==
    /\ CanReceive
    /\ req.method # "OPTIONS"
    /\ ~BodyIsNull(req)
    /\ Route(req.path) = "check-connection"
    /\ LET body == ParseBody(req)
           r == NewRequest("check-connection", body)
       IN  IF body.apiKey = ""
           THEN Answer(jsonError(r, 401, "api key missing", FALSE, 0, 0), today)
           ELSE Suspend(r, "/company", body.inn)

CheckConnection(req) ==
    /\ CanReceive
    /\ req.method # "OPTIONS"
    /\ ~BodyIsNull(req)
    /\ Route(req.path) = "check-connection"
    /\ LET body == ParseBody(req)
           r == NewRequest("check-connection", body)
       IN  IF body.apiKey = ""
           THEN Answer(jsonError(r, 401, "api key missing", FALSE, 0, 0), today)
           ELSE Suspend(r, "/company", testINN)

\* company and finances, up to the upstream call: the same code twice.
LookupSkipsInnCheck(req, endpoint, upstream) ==
    /\ CanReceive
    /\ req.method # "OPTIONS"
    /\ ~BodyIsNull(req)
    /\ Route(req.path) = endpoint
    /\ LET body == ParseBody(req)
           remainingRequests == getRemainingRequests(requests, body.apiKey, today)
           r == NewRequest(endpoint, body)
           checked == [r EXCEPT !.remainingRequests = remainingRequests,
                                !.quotaReads = 1]
       IN  IF body.apiKey = ""
           THEN Answer(jsonError(r, 401, "api key and inn required", FALSE, 0, 0),
                       today)
           ELSE IF remainingRequests <= 0
           THEN Answer(jsonError(checked, 429, "daily limit exhausted", TRUE,
                                 DAILY_LIMIT, 0), today)
           ELSE Suspend(checked, upstream, body.inn)

LookupChecksQuotaFirst(req, endpoint, upstream) ==
    /\ CanReceive
    /\ req.method # "OPTIONS"
    /\ ~BodyIsNull(req)
    /\ Route(req.path) = endpoint
    /\ LET body == ParseBody(req)
           remainingRequests == getRemainingRequests(requests, body.apiKey, today)
           r == NewRequest(endpoint, body)
           checked == [r EXCEPT !.remainingRequests = remainingRequests,
                                !.quotaReads = 1]
       IN  IF body.apiKey # "" /\ remainingRequests <= 0
           THEN Answer(jsonError(checked, 429, "daily limit exhausted", TRUE,
                                 DAILY_LIMIT, 0), today)
           ELSE IF body.apiKey = "" \/ body.inn = ""
           THEN Answer(jsonError(r, 401, "api key and inn required", FALSE, 0, 0),
                       today)
           ELSE Suspend(checked, upstream, body.inn)

Lookup(req, endpoint, upstream) ==
    /\ CanReceive
    /\ req.method # "OPTIONS"
    /\ ~BodyIsNull(req)
    /\ Route(req.path) = endpoint
    /\ LET body == ParseBody(req)
           remainingRequests == getRemainingRequests(requests, body.apiKey, today)
           r == NewRequest(endpoint, body)
           checked == [r EXCEPT !.remainingRequests = remainingRequests,
                                !.quotaReads = 1]
       IN  IF body.apiKey = "" \/ body.inn = ""
           THEN Answer(jsonError(r, 401, "api key and inn required", FALSE, 0, 0),
                       today)
           ELSE IF remainingRequests <= 0
           THEN Answer(jsonError(checked, 429, "daily limit exhausted", TRUE,
                                 DAILY_LIMIT, 0), today)
           ELSE Suspend(checked, upstream, body.inn)

Company(req) == Lookup(req, "company", "/company")

Finances(req) == Lookup(req, "finances", "/finances")

\* const requiredRequests = innList.length * 2
requiredRequestsOnePerInn(innList) == Len(innList)

requiredRequests(innList) == Len(innList) * 2

\* batch, up to the first upstream call.
Batch(req) ==
    /\ CanReceive
    /\ req.method # "OPTIONS"
    /\ ~BodyIsNull(req)
    /\ Route(req.path) = "batch"
    /\ LET body == ParseBody(req)
           remainingRequests == getRemainingRequests(requests, body.apiKey, today)
           r == NewRequest("batch", body)
           checked == [r EXCEPT !.remainingRequests = remainingRequests,
                                !.quotaReads = 1]
       IN  IF body.apiKey = "" \/ ~body.isArray \/ Len(body.innList) = 0
           THEN Answer(jsonError(r, 401, "api key and inn list required", FALSE,
                                 0, 0), today)
           ELSE IF remainingRequests < requiredRequests(body.innList)
           THEN \E d2 \in Later(today) :
                    Answer(jsonError([checked EXCEPT !.quotaReads = 2], 429,
                                     "not enough requests", TRUE,
                                     getCount(requests, body.apiKey, d2),
                                     remainingRequests), d2)
           ELSE Suspend([checked EXCEPT !.idx = 1], "/company", body.innList[1])

(* ---------------------- the upstream call returns --------------------- *)

\* The credentials increment has been called for, once the log of the day's
\* increment calls has become `log`.
Recorded(log) == recorded \cup {k \in ApiKeys : log[k] > increments[k]}

\* The request r answered after its upstream call.
FinishSilently(r, resp, store, incs, day) ==
    /\ inflight' = inflight (-) SetToBag({r})
    /\ response' = NoResponse
    /\ requests' = store
    /\ today' = day
    /\ upstreamCalls' = OnDay(upstreamCalls, day)
    /\ increments' = OnDay(incs, day)
    /\ recorded' = Recorded(incs)
    /\ UNCHANGED <<started, responses>>

Finish(r, resp, store, incs, day) ==
    /\ inflight' = inflight (-) SetToBag({r})
    /\ response' = resp
    /\ responses' = responses + 1
    /\ requests' = store
    /\ today' = day
    /\ upstreamCalls' = OnDay(upstreamCalls, day)
    /\ increments' = OnDay(incs, day)
    /\ recorded' = Recorded(incs)
    /\ UNCHANGED started

\* check-connection after its upstream call: no tracker write.
CheckConnectionReturn(r, o) ==
    /\ BagIn(r, inflight)
    /\ r.endpoint = "check-connection"
    /\ LET testData == callCheckoAPI(o)
           requestsUsedToday ==
               IF testData.meta # 0 THEN testData.meta
               ELSE getCount(requests, r.apiKey, today)
           remainingRequests == Max(0, DAILY_LIMIT - requestsUsedToday)
       IN  IF testData.threw
           THEN Finish(r, jsonError(r, OrDefault(testData.statusCode),
                                    "connection error", FALSE, 0, 0),
                       requests, increments, today)
           ELSE Finish(r, jsonOk(r, "connected", requestsUsedToday,
                                 remainingRequests),
                       requests, increments, today)

\* try { data = await callCheckoAPI(...); tracker.increment(apiKey); ... }:
\* the store once the call has returned data or thrown.
AfterCallAlwaysCounts(reqs, apiKey, data, now) == increment(reqs, apiKey, now)

AfterCall(reqs, apiKey, data, now) ==
    IF data.threw THEN reqs ELSE increment(reqs, apiKey, now)

\* The histories of that: one more increment for apiKey, one more for r.
Logged(log, apiKey, data) == IF data.threw THEN log ELSE Bump(log, apiKey)

Counted(r, data) == IF data.threw THEN r ELSE [r EXCEPT !.incs = @ + 1]

\* company and finances after the upstream call: increment and answer, or
\* answer the error the call threw.
LookupReturn(r, o) ==
    /\ BagIn(r, inflight)
    /\ r.endpoint \in {"company", "finances"}
    /\ LET data == callCheckoAPI(o)
           store == AfterCall(requests, r.apiKey, data, today)
           log == Logged(increments, r.apiKey, data)
           done == Counted(r, data)
       IN  IF data.threw
           THEN \E d2 \in Later(today) :
                    Finish(r, jsonError(done, OrDefault(data.statusCode),
                                        data.message, TRUE,
                                        getCount(store, r.apiKey, today),
                                        getRemainingRequests(store, r.apiKey, d2)),
                           store, log, d2)
           ELSE \E d2 \in (IF data.meta # 0 THEN {today} ELSE Later(today)) :
                    LET requestsUsedToday ==
                            IF data.meta # 0 THEN data.meta
                            ELSE getCount(store, r.apiKey, d2)
                        newRemainingRequests ==
                            Max(0, DAILY_LIMIT - requestsUsedToday)
                    IN  IF ~data.hasData
                        THEN Finish(r, jsonError(done, 404, "not found", TRUE,
                                                 requestsUsedToday,
                                                 newRemainingRequests),
                                    store, log, d2)
                        ELSE Finish(r, jsonOk(done, "", requestsUsedToday,
                                              newRemainingRequests),
                                    store, log, d2)

\* errors.push({inn, error, statusCode: error.statusCode || 500})
PushErrorDropped(r, statusCode) == r

PushError(r, statusCode) ==
    [r EXCEPT !.errors = Append(@, [inn |-> r.innList[r.idx],
                                    statusCode |-> OrDefault(statusCode)])]

\* results.push({inn, company, finances})
PushResult(r) == [r EXCEPT !.results = Append(@, r.innList[r.idx])]

\* The batch request r goes on as r2, suspended on its next upstream call.
ContinueFromFirst(r, r2, endpoint, inn, store, log) ==
    /\ inflight' = (inflight (-) SetToBag({r})) (+)
                        SetToBag({Awaiting(r2, endpoint, r2.innList[1])})
    /\ upstreamCalls' = Bump(upstreamCalls, r.apiKey)
    /\ increments' = log
    /\ recorded' = Recorded(log)
    /\ response' = NoResponse
    /\ requests' = store
    /\ UNCHANGED <<today, started, responses>>

Continue(r, r2, endpoint, inn, store, log) ==
    /\ inflight' = (inflight (-) SetToBag({r})) (+)
                        SetToBag({Awaiting(r2, endpoint, inn)})
    /\ upstreamCalls' = Bump(upstreamCalls, r.apiKey)
    /\ increments' = log
    /\ recorded' = Recorded(log)
    /\ response' = NoResponse
    /\ requests' = store
    /\ UNCHANGED <<today, started, responses>>

\* The response of a batch after its loop.
BatchRespondFailsOnAnyError(r, r2, store, log) ==
    \E d2 \in Later(today) : \E d3 \in Later(d2) :
        LET requestsUsedToday == getCount(store, r2.apiKey, d2)
            newRemainingRequests == getRemainingRequests(store, r2.apiKey, d3)
        IN  IF Len(r2.errors) > 0
            THEN Finish(r, jsonError(r2, OrDefault(r2.errors[1].statusCode),
                                     "no company loaded", TRUE,
                                     requestsUsedToday, newRemainingRequests),
                        store, log, d3)
            ELSE Finish(r, jsonOk(r2, "", requestsUsedToday,
                                  newRemainingRequests), store, log, d3)

BatchRespondLastError(r, r2, store, log) ==
    \E d2 \in Later(today) : \E d3 \in Later(d2) :
        LET requestsUsedToday == getCount(store, r2.apiKey, d2)
            newRemainingRequests == getRemainingRequests(store, r2.apiKey, d3)
        IN  IF Len(r2.results) = 0
            THEN Finish(r, jsonError(r2, OrDefault(r2.errors[Len(r2.errors)].statusCode),
                                     "no company loaded", TRUE,
                                     requestsUsedToday, newRemainingRequests),
                        store, log, d3)
            ELSE Finish(r, jsonOk(r2, "", requestsUsedToday,
                                  newRemainingRequests), store, log, d3)

BatchRespond(r, r2, store, log) ==
    \E d2 \in Later(today) : \E d3 \in Later(d2) :
        LET requestsUsedToday == getCount(store, r2.apiKey, d2)
            newRemainingRequests == getRemainingRequests(store, r2.apiKey, d3)
        IN  IF Len(r2.results) = 0
            THEN Finish(r, jsonError(r2, OrDefault(r2.errors[1].statusCode),
                                     "no company loaded", TRUE,
                                     requestsUsedToday, newRemainingRequests),
                        store, log, d3)
            ELSE Finish(r, jsonOk(r2, "", requestsUsedToday,
                                  newRemainingRequests), store, log, d3)

\* The batch loop after the entity at r.idx has ended in results or errors:
\* the next entity's company call, or the response after the last entity.
BatchNextAbortsOnError(r, r2, store, log) ==
    IF r2.idx < Len(r2.innList) /\ Len(r2.errors) = 0
    THEN Continue(r, [r2 EXCEPT !.idx = @ + 1], "/company",
                  r2.innList[r2.idx + 1], store, log)
    ELSE BatchRespond(r, r2, store, log)

BatchNext(r, r2, store, log) ==
    IF r2.idx < Len(r2.innList)
    THEN Continue(r, [r2 EXCEPT !.idx = @ + 1], "/company",
                  r2.innList[r2.idx + 1], store, log)
    ELSE BatchRespond(r, r2, store, log)

\* The batch loop after an entity's company call.
BatchCompanyReturnTriesFinances(r, o) ==
    /\ BagIn(r, inflight)
    /\ r.endpoint = "batch"
    /\ r.call.endpoint = "/company"
    /\ LET companyData == callCheckoAPI(o)
           store == AfterCall(requests, r.apiKey, companyData, today)
           log == Logged(increments, r.apiKey, companyData)
           done == Counted(r, companyData)
       IN  IF companyData.threw
           THEN BatchNext(r, PushError(done, companyData.statusCode), store, log)
           ELSE Continue(r, done, "/finances", r.innList[r.idx], store, log)

BatchCompanyReturn(r, o) ==
    /\ BagIn(r, inflight)
    /\ r.endpoint = "batch"
    /\ r.call.endpoint = "/company"
    /\ LET companyData == callCheckoAPI(o)
           store == AfterCall(requests, r.apiKey, companyData, today)
           log == Logged(increments, r.apiKey, companyData)
           done == Counted(r, companyData)
       IN  IF companyData.threw
           THEN BatchNext(r, PushError(done, companyData.statusCode), store, log)
           ELSE IF ~companyData.hasData
           THEN BatchNext(r, PushError(done, 404), store, log)
           ELSE Continue(r, done, "/finances", r.innList[r.idx], store, log)

\* The batch loop after an entity's finances call.
BatchFinancesReturn(r, o) ==
    /\ BagIn(r, inflight)
    /\ r.endpoint = "batch"
    /\ r.call.endpoint = "/finances"
    /\ LET financeData == callCheckoAPI(o)
           store == AfterCall(requests, r.apiKey, financeData, today)
           log == Logged(increments, r.apiKey, financeData)
           done == Counted(r, financeData)
       IN  IF financeData.threw
           THEN BatchNext(r, PushError(done, financeData.statusCode), store, log)
           ELSE IF ~financeData.hasData
           THEN BatchNext(r, PushError(done, 404), store, log)
           ELSE BatchNext(r, PushResult(done), store, log)

(* --------------------------- the specification ------------------------ *)

Next ==
    \/ Tick
    \/ \E req \in Requests : Options(req)
    \/ \E req \in Requests : OuterCatch(req)
    \/ \E req \in Requests : Unknown(req)
    \/ \E req \in Requests : CheckConnection(req)
    \/ \E req \in Requests : Company(req)
    \/ \E req \in Requests : Finances(req)
    \/ \E req \in Requests : Batch(req)
    \/ \E r \in BagToSet(inflight), o \in Outcomes : CheckConnectionReturn(r, o)
    \/ \E r \in BagToSet(inflight), o \in Outcomes : LookupReturn(r, o)
    \/ \E r \in BagToSet(inflight), o \in BatchOutcomes : BatchCompanyReturn(r, o)
    \/ \E r \in BagToSet(inflight), o \in BatchOutcomes : BatchFinancesReturn(r, o)

Spec == Init /\ [][Next]_vars

\* The handler with at most one request of a credential in flight at a time
\* and no change of day.
Alone ==
    /\ today' = today
    /\ \A r1, r2 \in BagToSet(inflight') :
        r1.apiKey = r2.apiKey => r1 = r2 /\ CopiesIn(r1, inflight') = 1

NextAlone ==
    \/ \E req \in Requests : Options(req) /\ Alone
    \/ \E req \in Requests : OuterCatch(req) /\ Alone
    \/ \E req \in Requests : Unknown(req) /\ Alone
    \/ \E req \in Requests : CheckConnection(req) /\ Alone
    \/ \E req \in Requests : Company(req) /\ Alone
    \/ \E req \in Requests : Finances(req) /\ Alone
    \/ \E req \in Requests : Batch(req) /\ Alone
    \/ \E r \in BagToSet(inflight), o \in Outcomes : CheckConnectionReturn(r, o) /\ Alone
    \/ \E r \in BagToSet(inflight), o \in Outcomes : LookupReturn(r, o) /\ Alone
    \/ \E r \in BagToSet(inflight), o \in BatchOutcomes : BatchCompanyReturn(r, o) /\ Alone
    \/ \E r \in BagToSet(inflight), o \in BatchOutcomes : BatchFinancesReturn(r, o) /\ Alone

SpecAlone == Init /\ [][NextAlone]_vars

\* The handler with its requests handled strictly one after another: none is
\* received while another waits for upstream.
OneAtATime == BagCardinality(inflight') <= 1

NextSequential ==
    \/ Tick /\ OneAtATime
    \/ \E req \in Requests : Options(req) /\ OneAtATime
    \/ \E req \in Requests : OuterCatch(req) /\ OneAtATime
    \/ \E req \in Requests : Unknown(req) /\ OneAtATime
    \/ \E req \in Requests : CheckConnection(req) /\ OneAtATime
    \/ \E req \in Requests : Company(req) /\ OneAtATime
    \/ \E req \in Requests : Finances(req) /\ OneAtATime
    \/ \E req \in Requests : Batch(req) /\ OneAtATime
    \/ \E r \in BagToSet(inflight), o \in Outcomes :
            CheckConnectionReturn(r, o) /\ OneAtATime
    \/ \E r \in BagToSet(inflight), o \in Outcomes : LookupReturn(r, o) /\ OneAtATime
    \/ \E r \in BagToSet(inflight), o \in BatchOutcomes :
            BatchCompanyReturn(r, o) /\ OneAtATime
    \/ \E r \in BagToSet(inflight), o \in BatchOutcomes :
            BatchFinancesReturn(r, o) /\ OneAtATime

SpecSequential == Init /\ [][NextSequential]_vars

\* The handler after two overlapping lookups of "k1", both admitted at 99,
\* have left its count at 101.
InitRaced ==
    /\ requests = (getKey("k1") :> [date |-> 1, count |-> DAILY_LIMIT + 1])
    /\ today = 1
    /\ inflight = EmptyBag
    /\ response = NoResponse
    /\ started = 0
    /\ responses = 0
    /\ upstreamCalls = SeedLog(requests)
    /\ increments = SeedLog(requests)
    /\ recorded = {"k1"}

SpecRaced == InitRaced /\ [][Next]_vars

\* The handler from the start of the process: new RequestTracker() has an
\* empty Map.
InitFresh == Init /\ requests = <<>>

SpecFresh == InitFresh /\ [][Next]_vars

\* The handler when every upstream call it awaits eventually returns or
\* fails.
Returns ==
    /\ WF_vars(\E r \in BagToSet(inflight), o \in Outcomes :
                    CheckConnectionReturn(r, o))
    /\ WF_vars(\E r \in BagToSet(inflight), o \in Outcomes : LookupReturn(r, o))
    /\ WF_vars(\E r \in BagToSet(inflight), o \in BatchOutcomes :
                    BatchCompanyReturn(r, o))
    /\ WF_vars(\E r \in BagToSet(inflight), o \in BatchOutcomes :
                    BatchFinancesReturn(r, o))

SpecReturns == Init /\ [][Next]_vars /\ Returns

(* ---------------- the handler variant src/unnamed/part_001 ------------- *)

\* The variant's tracker is the same class; its callCheckoAPI throws plain
\* Errors that carry a message and no statusCode.
callCheckoAPI_001(o) ==
    IF o.status = 0 THEN createError("fetch failed", 0)
    ELSE IF ~ResponseOk(o) THEN
        IF o.status = 401 THEN createError("invalid api key", 0)
        ELSE IF o.status = 404 THEN createError("company not found", 0)
        ELSE IF o.status = 429 THEN createError("upstream rate limit", 0)
        ELSE createError("upstream error", 0)
    ELSE [threw |-> FALSE, message |-> "", statusCode |-> 0,
          hasData |-> o.hasData, meta |-> o.meta]

\* res.status(200).json({status, message, ...}): the variant answers its
\* errors with HTTP 200 too.
json_001(r, status, message, figures, used, remaining) ==
    [r |-> r, http |-> 200, status |-> status, message |-> message,
     figures |-> figures, used |-> used, remaining |-> remaining]

\* The outer catch: it evaluates `body`, which `let` declared inside the try
\* block and which is not in scope in the catch block, so the catch throws a
\* ReferenceError and the handler's promise rejects with no response sent.
catch_001(r) ==
    [NoResponse EXCEPT !.r = r, !.status = "rejected",
                       !.message = "body is not defined"]

\* A request of the variant ends in the outer catch before any upstream call.
OuterCatch_001(req) ==
    /\ CanReceive
    /\ req.method # "OPTIONS"
    /\ BodyIsNull(req)
    /\ Route(req.path) # "unknown"
    /\ response' = catch_001(NewRequest(Route(req.path), EmptyBody))
    /\ started' = started + 1
    /\ UNCHANGED <<requests, today, inflight, responses, upstreamCalls,
                   increments, recorded>>

\* A request of the variant ends in the outer catch after its upstream call
\* threw.
Throw_001(r) ==
    /\ inflight' = inflight (-) SetToBag({r})
    /\ response' = catch_001(r)
    /\ UNCHANGED <<requests, today, started, responses, upstreamCalls,
                   increments, recorded>>

CheckConnection_001(req) ==
    /\ CanReceive
    /\ req.method # "OPTIONS"
    /\ ~BodyIsNull(req)
    /\ Route(req.path) = "check-connection"
    /\ LET body == ParseBody(req)
           r == NewRequest("check-connection", body)
       IN  IF body.apiKey = ""
           THEN Answer(json_001(r, "error", "api key missing", FALSE, 0, 0),
                       today)
           ELSE Suspend(r, "/company", testINN)

Lookup_001(req, endpoint, upstream) ==
    /\ CanReceive
    /\ req.method # "OPTIONS"
    /\ ~BodyIsNull(req)
    /\ Route(req.path) = endpoint
    /\ LET body == ParseBody(req)
           remainingRequests == getRemainingRequests(requests, body.apiKey, today)
           r == NewRequest(endpoint, body)
           checked == [r EXCEPT !.remainingRequests = remainingRequests,
                                !.quotaReads = 1]
       IN  IF body.apiKey = "" \/ body.inn = ""
           THEN Answer(json_001(r, "error", "api key and inn required", FALSE,
                                0, 0), today)
           ELSE IF remainingRequests <= 0
           THEN Answer(json_001(checked, "error", "daily limit exhausted", TRUE,
                                DAILY_LIMIT, 0), today)
           ELSE Suspend(checked, upstream, body.inn)

Company_001(req) == Lookup_001(req, "company", "/company")

Finances_001(req) == Lookup_001(req, "finances", "/finances")

Batch_001(req) ==
    /\ CanReceive
    /\ req.method # "OPTIONS"
    /\ ~BodyIsNull(req)
    /\ Route(req.path) = "batch"
    /\ LET body == ParseBody(req)
           remainingRequests == getRemainingRequests(requests, body.apiKey, today)
           r == NewRequest("batch", body)
           checked == [r EXCEPT !.remainingRequests = remainingRequests,
                                !.quotaReads = 1]
       IN  IF body.apiKey = "" \/ ~body.isArray \/ Len(body.innList) = 0
           THEN Answer(json_001(r, "error", "api key and inn list required",
                                FALSE, 0, 0), today)
           ELSE IF remainingRequests < requiredRequests(body.innList)
           THEN \E d2 \in Later(today) :
                    Answer(json_001([checked EXCEPT !.quotaReads = 2], "error",
                                    "not enough requests", TRUE,
                                    getCount(requests, body.apiKey, d2),
                                    remainingRequests), d2)
           ELSE Suspend([checked EXCEPT !.idx = 1], "/company", body.innList[1])

\* check-connection of the variant after its upstream call: the tracker's
\* figures, or the outer catch.
CheckConnectionReturn_001(r, o) ==
    /\ BagIn(r, inflight)
    /\ r.endpoint = "check-connection"
    /\ LET data == callCheckoAPI_001(o)
       IN  IF data.threw
           THEN Throw_001(r)
           ELSE \E d2 \in Later(today) :
                    Finish(r, json_001(r, "ok", "connected", TRUE,
                                       getCount(requests, r.apiKey, today),
                                       getRemainingRequests(requests, r.apiKey, d2)),
                           requests, increments, d2)

\* company and finances of the variant after the upstream call: increment
\* and answer what increment returned, or the outer catch.
LookupReturn_001(r, o) ==
    /\ BagIn(r, inflight)
    /\ r.endpoint \in {"company", "finances"}
    /\ LET data == callCheckoAPI_001(o)
           store == increment(requests, r.apiKey, today)
           requestsUsedToday == incrementResult(requests, r.apiKey, today)
       IN  IF data.threw
           THEN Throw_001(r)
           ELSE \E d2 \in Later(today) :
                    Finish(r, json_001([r EXCEPT !.incs = @ + 1], "ok", "", TRUE,
                                       requestsUsedToday,
                                       getRemainingRequests(store, r.apiKey, d2)),
                           store, Bump(increments, r.apiKey), d2)

\* The variant's batch loop after the entity at r2.idx: the next entity's
\* company call, or the response, which is always "ok".
BatchNext_001(r, r2, store, log) ==
    IF r2.idx < Len(r2.innList)
    THEN Continue(r, [r2 EXCEPT !.idx = @ + 1], "/company",
                  r2.innList[r2.idx + 1], store, log)
    ELSE \E d2 \in Later(today) : \E d3 \in Later(d2) :
            Finish(r, json_001(r2, "ok", "", TRUE,
                               getCount(store, r2.apiKey, d2),
                               getRemainingRequests(store, r2.apiKey, d3)),
                   store, log, d3)

\* The variant's batch loop after a company call: the per-entity catch only
\* logs the error.
BatchCompanyReturn_001(r, o) ==
    /\ BagIn(r, inflight)
    /\ r.endpoint = "batch"
    /\ r.call.endpoint = "/company"
    /\ LET companyData == callCheckoAPI_001(o)
       IN  IF companyData.threw
           THEN BatchNext_001(r, r, requests, increments)
           ELSE Continue(r, [r EXCEPT !.incs = @ + 1], "/finances",
                         r.innList[r.idx],
                         increment(requests, r.apiKey, today),
                         Bump(increments, r.apiKey))

BatchFinancesReturn_001(r, o) ==
    /\ BagIn(r, inflight)
    /\ r.endpoint = "batch"
    /\ r.call.endpoint = "/finances"
    /\ LET financeData == callCheckoAPI_001(o)
       IN  IF financeData.threw
           THEN BatchNext_001(r, r, requests, increments)
           ELSE BatchNext_001(r, PushResult([r EXCEPT !.incs = @ + 1]),
                              increment(requests, r.apiKey, today),
                              Bump(increments, r.apiKey))

\* The variant: OPTIONS and the unknown endpoint are answered as in
\* src/api/handler.js.
Next_001 ==
    \/ Tick
    \/ \E req \in Requests : Options(req)
    \/ \E req \in Requests : OuterCatch_001(req)
    \/ \E req \in Requests : Unknown(req)
    \/ \E req \in Requests : CheckConnection_001(req)
    \/ \E req \in Requests : Company_001(req)
    \/ \E req \in Requests : Finances_001(req)
    \/ \E req \in Requests : Batch_001(req)
    \/ \E r \in BagToSet(inflight), o \in Outcomes : CheckConnectionReturn_001(r, o)
    \/ \E r \in BagToSet(inflight), o \in Outcomes : LookupReturn_001(r, o)
    \/ \E r \in BagToSet(inflight), o \in BatchOutcomes : BatchCompanyReturn_001(r, o)
    \/ \E r \in BagToSet(inflight), o \in BatchOutcomes : BatchFinancesReturn_001(r, o)

Spec_001 == Init /\ [][Next_001]_vars

(* ------------------------------- claims ------------------------------- *)

\* What the claims call currentUsage and remaining, read off the store.
Usage(store, k, day) ==
    IF getKey(k) \in DOMAIN store /\ store[getKey(k)].date = day
    THEN store[getKey(k)].count
    ELSE 0

Left(store, k, day) ==
    IF Usage(store, k, day) >= DAILY_LIMIT THEN 0
    ELSE DAILY_LIMIT - Usage(store, k, day)

Lookups == {"company", "finances"}

\* This step received a request.
Received == started' = started + 1

\* The request this step received: answered at once or suspended.
ReceivedRequest ==
    IF response'.http # 0 THEN response'.r
    ELSE CHOOSE r \in BagToSet(inflight') :
            CopiesIn(r, inflight') > CopiesIn(r, inflight)

\* This step answered a request it received: nothing was called or written.
AnsweredAtOnce ==
    /\ inflight' = inflight
    /\ requests' = requests
    /\ \A k \in ApiKeys : upstreamCalls'[k] <= upstreamCalls[k]
    /\ response'.r.calls = 0
    /\ response'.r.incs = 0

\* C1: for every credential, the upstream calls made with it on one day
\* never exceed the daily limit of 100.
C1_UpstreamCallsWithinLimit ==
    \A k \in ApiKeys : upstreamCalls[k] <= DAILY_LIMIT

\* C2: increments are never lost: whatever requests interleave, the count
\* stored for a credential today is the count the day started with plus the
\* number of increment calls made for it today.
C2_NoLostIncrement ==
    \A k \in ApiKeys : Usage(requests, k, today) = increments[k]

\* A lookup has incremented between the two increments of a batch of the
\* same credential.
C2_Witness ==
    /\ response.status = "ok"
    /\ response.r.endpoint \in Lookups
    /\ response.r.apiKey = "k1"
    /\ response.r.incs = 1
    /\ \E r \in BagToSet(inflight) :
        /\ r.endpoint = "batch"
        /\ r.apiKey = "k1"
        /\ r.call.endpoint = "/finances"
        /\ r.incs = 1

\* C3: a company or finances request for a credential with no quota left is
\* answered 429 quota-exceeded, with no upstream call and the store unchanged.
C3_ExhaustedLookupRejected ==
    [][(/\ Received
        /\ ReceivedRequest.endpoint \in Lookups
        /\ ReceivedRequest.apiKey # ""
        /\ ReceivedRequest.inn # ""
        /\ Left(requests, ReceivedRequest.apiKey, today) <= 0)
       => (/\ response'.status = "error"
           /\ response'.http = 429
           /\ response'.message = "daily limit exhausted"
           /\ AnsweredAtOnce)]_vars

\* A finances request was refused for a credential whose count today is 100.
C3_Witness ==
    /\ response.r.endpoint = "finances"
    /\ response.http = 429
    /\ response.r.remainingRequests = 0
    /\ Usage(requests, response.r.apiKey, today) = DAILY_LIMIT

\* C4 as stated: a lookup whose upstream attempt ends in any classified
\* error, NotFound included, has made no increment.
C4_NoIncrementOnAnyError ==
    (/\ response.r.endpoint \in Lookups
     /\ response.status = "error"
     /\ response.r.calls = 1)
    => response.r.incs = 0

\* C4, amended: a lookup whose upstream call throws (invalid credential,
\* upstream rate limit, zero balance, another upstream status, a transport
\* failure) makes no increment and leaves the store unchanged, and its response
\* carries the store's figures read at that moment; a lookup whose call returns
\* a success response with no data is answered 404 after one increment.
C4_NoIncrementOnThrow ==
    [][(/\ response'.r.endpoint \in Lookups
        /\ response'.status = "error"
        /\ response'.r.calls = 1)
       => IF response'.message = "not found"
          THEN /\ response'.http = 404
               /\ response'.r.incs = 1
               /\ Usage(requests', response'.r.apiKey, today)
                    = Usage(requests, response'.r.apiKey, today) + 1
          ELSE /\ response'.r.incs = 0
               /\ requests' = requests
               /\ response'.figures
               /\ response'.used = Usage(requests, response'.r.apiKey, today)
               /\ response'.remaining = Left(requests, response'.r.apiKey, today')]_vars

\* A lookup of a credential with 99 counted requests was answered with an
\* upstream error and the unchanged figures 99 and 1.
C4_Witness ==
    /\ response.r.endpoint = "company"
    /\ response.status = "error"
    /\ response.http = 429
    /\ response.r.calls = 1
    /\ response.used = 1
    /\ response.remaining = DAILY_LIMIT - 1

\* C5: a batch of N identifiers with remaining < 2*N is rejected upfront
\* (429, no upstream call, no entity attempted, store unchanged); with
\* remaining >= 2*N it is admitted and its first entity's call is made.
C5_BatchAdmission ==
    [][(/\ Received
        /\ ReceivedRequest.endpoint = "batch"
        /\ ReceivedRequest.apiKey # ""
        /\ Len(ReceivedRequest.innList) > 0)
       => IF Left(requests, ReceivedRequest.apiKey, today)
                < 2 * Len(ReceivedRequest.innList)
          THEN /\ response'.status = "error"
               /\ response'.http = 429
               /\ AnsweredAtOnce
               /\ response'.r.idx = 0
               /\ response'.r.results = <<>>
               /\ response'.r.errors = <<>>
          ELSE /\ response'.http = 0
               /\ BagIn(ReceivedRequest, inflight')
               /\ ReceivedRequest.idx = 1
               /\ ReceivedRequest.calls = 1
               /\ ReceivedRequest.call =
                    [endpoint |-> "/company", inn |-> ReceivedRequest.innList[1]]
               /\ requests' = requests]_vars

\* A batch of 2 was rejected with 2 requests left: enough for its identifiers,
\* not for two calls each.
C5_Witness ==
    /\ response.r.endpoint = "batch"
    /\ response.http = 429
    /\ Len(response.r.innList) = 2
    /\ response.remaining = 2
    /\ response.r.calls = 0

\* The identifiers of a batch's errors list.
ErrorInns(r) == [i \in 1..Len(r.errors) |-> r.errors[i].inn]

InList(x, seq) == \E i \in 1..Len(seq) : seq[i] = x

\* C6: in an admitted batch every identifier is processed and ends in exactly
\* one of results and errors, whatever failed before it: the two lengths add
\* up to the list's and both lists keep the input order.
C6_EveryIdentifierEndsOnce ==
    /\ (response.r.endpoint = "batch" /\ response.r.calls > 0) =>
        LET r == response.r IN
        /\ r.idx = Len(r.innList)
        /\ Len(r.results) + Len(r.errors) = Len(r.innList)
        /\ \A i \in 1..Len(r.innList) :
            InList(r.innList[i], r.results) # InList(r.innList[i], ErrorInns(r))
        /\ SelectSeq(r.innList, LAMBDA x : InList(x, r.results)) = r.results
        /\ SelectSeq(r.innList, LAMBDA x : InList(x, ErrorInns(r))) = ErrorInns(r)
    /\ \A r \in BagToSet(inflight) :
        r.endpoint = "batch" => Len(r.results) + Len(r.errors) = r.idx - 1

\* The first identifier of a batch failed and the second succeeded.
C6_Witness ==
    /\ response.r.endpoint = "batch"
    /\ response.status = "ok"
    /\ ErrorInns(response.r) = <<"i1">>
    /\ response.r.results = <<"i2">>

\* The entries of a batch's errors list that a thrown call made.
Thrown(r) == Cardinality({i \in 1..Len(r.errors) : r.errors[i].statusCode # 404})

\* C7 (no other request of the credential in flight, no change of day): over an admitted batch the
\* credential's count grows by the number of upstream calls that returned a
\* success response; a call that throws adds nothing; the growth is at most 2
\* per identifier and 2*N in all.
C7_BatchGrowth ==
    (response.r.endpoint = "batch" /\ response.r.calls > 0) =>
        LET r == response.r
            N == Len(r.innList)
            growth == Usage(requests, r.apiKey, today)
                        - (DAILY_LIMIT - r.remainingRequests)
            empty == Len(r.errors) - Thrown(r)
        IN  /\ growth = r.calls - Thrown(r)
            /\ growth >= 2 * Len(r.results) + empty
            /\ growth <= 2 * Len(r.results) + 2 * empty + Thrown(r)
            /\ growth <= 2 * N
            /\ r.calls <= 2 * N

\* A batch of 2 made 4 calls of which one threw: the count grew by 3.
C7_Witness ==
    /\ response.r.endpoint = "batch"
    /\ Len(response.r.innList) = 2
    /\ response.r.calls = 4
    /\ Thrown(response.r) = 1
    /\ Usage(requests, response.r.apiKey, today)
        = DAILY_LIMIT - response.r.remainingRequests + 3

\* The value the n-th of n consecutive increment calls returns.
RECURSIVE NthResult(_, _, _, _)
NthResult(store, k, day, n) ==
    IF n = 1 THEN incrementResult(store, k, day)
    ELSE NthResult(increment(store, k, day), k, day, n - 1)

\* C8: recordUsage stores {day: today, count: 1} and returns 1 when the
\* credential has no record or a record of another day, and otherwise adds 1
\* to the stored count and returns the new value; so the N-th consecutive
\* call of a day returns N.
C8_RecordUsage ==
    \A k \in ApiKeys :
        LET key == getKey(k)
            after == increment(requests, k, today)
            result == incrementResult(requests, k, today)
        IN  /\ DOMAIN after = DOMAIN requests \cup {key}
            /\ \A other \in DOMAIN requests \ {key} : after[other] = requests[other]
            /\ IF key \notin DOMAIN requests \/ requests[key].date # today
               THEN /\ after[key] = [date |-> today, count |-> 1]
                    /\ result = 1
                    /\ \A n \in 1..MaxConsecutive :
                        NthResult(requests, k, today, n) = n
               ELSE /\ after[key] = [date |-> today,
                                     count |-> requests[key].count + 1]
                    /\ result = requests[key].count + 1

\* A credential with no record was counted twice on one day.
C8_Witness ==
    /\ getKey("k2") \in DOMAIN requests
    /\ requests[getKey("k2")] = [date |-> today, count |-> 2]
    /\ increments["k2"] = 2

\* C9: a record of another day counts as zero usage: currentUsage is 0,
\* remaining is 100, and the next recordUsage returns 1 and replaces the
\* record by {day: today, count: 1}, whatever count it held.
C9_StaleRecordIsZero ==
    \A k \in ApiKeys :
        (getKey(k) \in DOMAIN requests /\ requests[getKey(k)].date # today) =>
            /\ getCount(requests, k, today) = 0
            /\ getRemainingRequests(requests, k, today) = DAILY_LIMIT
            /\ incrementResult(requests, k, today) = 1
            /\ increment(requests, k, today)[getKey(k)]
                = [date |-> today, count |-> 1]

\* A lookup incremented just before midnight and read the count just after:
\* its response reports 0 used and 100 remaining.
C9_Witness ==
    /\ response.status = "ok"
    /\ response.r.endpoint \in Lookups
    /\ response.r.incs = 1
    /\ response.used = 0
    /\ response.remaining = DAILY_LIMIT
    /\ requests[getKey(response.r.apiKey)].date = today - 1
    /\ requests[getKey(response.r.apiKey)].count > 1

\* C10: for every credential and day, remaining is max(0, 100 - currentUsage):
\* within 0..100, and 0 when the count stored for the day is 100 or more.
C10_RemainingIsClampedDifference ==
    \A k \in ApiKeys : \A d \in Days :
        LET used == getCount(requests, k, d)
            remaining == getRemainingRequests(requests, k, d)
        IN  /\ remaining = IF DAILY_LIMIT - used < 0 THEN 0 ELSE DAILY_LIMIT - used
            /\ remaining \in 0..DAILY_LIMIT
            /\ Usage(requests, k, d) >= DAILY_LIMIT => remaining = 0

\* Two requests in flight together took a credential's count past 100.
C10_Witness ==
    \E k \in ApiKeys : Usage(requests, k, today) > DAILY_LIMIT

\* C11: currentUsage is 0 for a credential with no record or a record of
\* another day and the stored count otherwise, remaining follows it, and
\* neither changes the store: a step changes the store only by one
\* recordUsage, and a step that only reads leaves every record, stale ones
\* included, as it was.
C11_ReadsLeaveStore ==
    /\ [](\A k \in ApiKeys : \A d \in Days :
            /\ getCount(requests, k, d) =
                IF getKey(k) \notin DOMAIN requests THEN 0
                ELSE IF requests[getKey(k)].date # d THEN 0
                ELSE requests[getKey(k)].count
            /\ getRemainingRequests(requests, k, d) = Left(requests, k, d))
    /\ [][/\ requests' # requests =>
                \E k \in ApiKeys : requests' = increment(requests, k, today)
          /\ (response'.http # 0 /\ response'.r.incs = 0) => requests' = requests]_vars

\* A lookup whose call threw read the figures of a credential whose record is
\* of another day: 0 used, 100 remaining, and the stale record is still stored.
C11_Witness ==
    /\ response.r.endpoint \in Lookups
    /\ response.status = "error"
    /\ response.r.calls = 1
    /\ response.figures
    /\ response.used = 0
    /\ response.remaining = DAILY_LIMIT
    /\ getKey(response.r.apiKey) \in DOMAIN requests
    /\ requests[getKey(response.r.apiKey)].date # today
    /\ requests[getKey(response.r.apiKey)].count = DAILY_LIMIT

\* The store after n consecutive increment calls.
RECURSIVE NthStore(_, _, _, _)
NthStore(store, k, day, n) ==
    IF n = 0 THEN store
    ELSE NthStore(increment(store, k, day), k, day, n - 1)

\* C12: recordUsage never refuses and never caps: whatever count is stored
\* for today, 100 or more included, each call stores count + 1 and returns it.
C12_RecordUsageNeverRefuses ==
    \A k \in ApiKeys :
        (getKey(k) \in DOMAIN requests /\ requests[getKey(k)].date = today) =>
            \A n \in 1..MaxConsecutive :
                LET count == requests[getKey(k)].count IN
                /\ NthResult(requests, k, today, n) = count + n
                /\ NthStore(requests, k, today, n)[getKey(k)]
                    = [date |-> today, count |-> count + n]
                /\ getCount(NthStore(requests, k, today, n), k, today) = count + n

\* A lookup admitted at 99 returned after another had taken the count to 100:
\* its increment stored 101.
C12_Witness ==
    /\ response.status = "ok"
    /\ response.r.endpoint \in Lookups
    /\ response.r.remainingRequests = 1
    /\ response.r.incs = 1
    /\ response.used = DAILY_LIMIT + 1
    /\ requests[getKey(response.r.apiKey)] = [date |-> today, count |-> DAILY_LIMIT + 1]

\* The request lacks an input its endpoint requires: the credential, the
\* identifier of a company or finances lookup, a non-empty list of a batch.
MissingInput(r) ==
    /\ r.endpoint \in {"check-connection", "company", "finances", "batch"}
    /\ \/ r.apiKey = ""
       \/ r.endpoint \in Lookups /\ r.inn = ""
       \/ r.endpoint = "batch" /\ Len(r.innList) = 0

\* C13: a request with missing input is answered with an error response at
\* once: 401 (500 when the body is the JSON null), no upstream call, and the
\* store untouched, whatever quota the credential has left.
C13_MissingInputRejected ==
    [][(Received /\ MissingInput(ReceivedRequest))
       => (/\ response'.status = "error"
           /\ response'.http =
                (IF response'.message = "cannot destructure" THEN 500 ELSE 401)
           /\ response'.r = ReceivedRequest
           /\ AnsweredAtOnce
           /\ BagCardinality(inflight') = BagCardinality(inflight))]_vars

\* A company request with a credential and no identifier was refused 401
\* although the credential's count stood at the limit.
C13_Witness ==
    /\ response.r.endpoint = "company"
    /\ response.r.apiKey = "k1"
    /\ response.r.inn = ""
    /\ response.http = 401
    /\ Usage(requests, "k1", today) = DAILY_LIMIT

\* C14: an admitted batch is answered "error" exactly when its results list
\* is empty, with the first error's status code; with one result or more it
\* is answered 200 "ok" and the failures stay in its errors list.
C14_BatchErrorIffNoResult ==
    (response.r.endpoint = "batch" /\ response.r.calls > 0) =>
        LET r == response.r IN
        /\ response.status \in {"ok", "error"}
        /\ response.status = "error" <=> Len(r.results) = 0
        /\ response.status = "error" =>
            /\ Len(r.errors) = Len(r.innList)
            /\ response.http = r.errors[1].statusCode
        /\ response.status = "ok" =>
            /\ response.http = 200
            /\ Len(r.errors) = Len(r.innList) - Len(r.results)

\* The second identifier of a batch was refused by upstream after the first
\* had succeeded: the batch is answered "ok" with one error entry.
C14_Witness ==
    /\ response.r.endpoint = "batch"
    /\ response.status = "ok"
    /\ response.r.results = <<"i1">>
    /\ response.r.errors = <<[inn |-> "i2", statusCode |-> 401]>>

\* C15 as stated: every response carries a structured result whose status is
\* "ok" or "error".
C15_EveryResponseStructured ==
    response.http # 0 => response.status \in {"ok", "error"}

\* C15, amended (every awaited upstream call returns or fails): every request
\* is eventually answered, and answered once: the requests received are those
\* answered plus those waiting for upstream; a response to an OPTIONS request
\* is 200 with no body, every other one is 200 "ok" or an "error" with an
\* error status code.
C15_EveryRequestAnsweredOnce ==
    /\ [](/\ started = responses + BagCardinality(inflight)
          /\ response.http # 0 =>
                IF response.r.endpoint = "options"
                THEN response.http = 200 /\ response.status = "none"
                ELSE /\ response.status \in {"ok", "error"}
                     /\ response.status = "ok" <=> response.http = 200
                     /\ response.status = "error" => response.http >= 400)
    /\ [][responses' \in {responses, responses + 1}]_vars
    /\ \A n \in 1..MaxRequests : (started >= n) ~> (responses >= n)

\* Both requests have been answered, the last a lookup whose upstream call
\* failed in transport, answered 500.
C15_Witness ==
    /\ responses = MaxRequests
    /\ inflight = EmptyBag
    /\ response.r.endpoint \in Lookups
    /\ response.r.calls = 1
    /\ response.status = "error"
    /\ response.http = 500
    /\ response.message = "fetch failed"

\* The HTTP code check-connection answers with, by the upstream answer alone.
ConnectionCode(o) ==
    CASE o.status = 200 -> 200
      [] o.status \in {401, 403} -> 401
      [] o.status = 429 -> 429
      [] o.status = 400 /\ o.balance0 -> 402
      [] o.status = 0 -> 500
      [] OTHER -> o.status

\* The step is what the claim says of check-connection answering r after the
\* upstream answer o.
ConnectionChecked(r, o) ==
    /\ requests' = requests
    /\ increments' = increments
    /\ response'.r = r
    /\ response'.r.incs = 0
    /\ response'.http = ConnectionCode(o)
    /\ response'.status = (IF o.status = 200 THEN "ok" ELSE "error")
    /\ response'.message = (IF o.status = 200 THEN "connected" ELSE "connection error")

\* C16: check-connection calls upstream for the reference identifier
\* 7735560386 whatever the body carries, makes no increment and leaves the
\* store unchanged, and for each upstream answer its status, code and message
\* are the same whatever the body's identifiers and the credential's usage.
C16_CheckConnectionFixedLookup ==
    \A r \in BagToSet(inflight) :
        r.endpoint = "check-connection" =>
            /\ r.call = [endpoint |-> "/company", inn |-> testINN]
            /\ r.calls = 1
            /\ r.incs = 0
            /\ \A o \in Outcomes :
                /\ ENABLED (CheckConnectionReturn(r, o) /\ ConnectionChecked(r, o))
                /\ ~ENABLED (CheckConnectionReturn(r, o) /\ ~ConnectionChecked(r, o))

\* check-connection succeeded for a request that carried an identifier of its
\* own and a credential whose count stands at the limit.
C16_Witness ==
    /\ response.r.endpoint = "check-connection"
    /\ response.status = "ok"
    /\ response.r.inn = "i1"
    /\ response.r.calls = 1
    /\ response.used = DAILY_LIMIT
    /\ response.remaining = 0
    /\ Usage(requests, response.r.apiKey, today) = DAILY_LIMIT

\* The lookup was admitted: it had its inputs and quota left.
Admitted(resp) ==
    /\ resp.r.endpoint \in Lookups
    /\ resp.http # 0
    /\ resp.message \notin {"api key and inn required", "daily limit exhausted",
                            "cannot destructure"}

\* C17: each callCheckoAPI invocation makes exactly one fetch, whatever the
\* outcome, so a request has made as many fetches as calls, and an admitted
\* company or finances lookup is answered after exactly one fetch.
C17_OneAttemptPerCall ==
    /\ \A r \in BagToSet(inflight) :
        /\ r.fetches = r.calls
        /\ r.endpoint # "batch" => r.fetches = 1
    /\ response.r.fetches = response.r.calls
    /\ Admitted(response) => response.r.fetches = 1
    /\ (response.r.endpoint \in Lookups /\ response.http # 0 /\ ~Admitted(response))
        => response.r.fetches = 0

\* A finances lookup whose fetch failed in transport was answered 500 after
\* that one fetch.
C17_Witness ==
    /\ response.r.endpoint = "finances"
    /\ response.http = 500
    /\ response.message = "fetch failed"
    /\ response.r.calls = 1
    /\ response.r.fetches = 1

\* C18: in every response that carries both figures, remainingRequests is
\* max(0, 100 - requestsUsedToday).
C18_FiguresAgree ==
    (response.http # 0 /\ response.figures) =>
        response.remaining = Max(0, DAILY_LIMIT - response.used)

\* C19 as stated: a successful lookup's response carries the tracker's
\* currentUsage and remaining as they are right after its recordUsage.
C19_ReportsTrackerFigures ==
    (response.status = "ok" /\ response.r.endpoint \in Lookups) =>
        /\ response.used = Usage(requests, response.r.apiKey, today)
        /\ response.remaining = Left(requests, response.r.apiKey, today)

\* The step is a successful lookup answering r after the upstream answer o
\* with the figures the handler reports.
Reported(r, o) ==
    /\ response'.status = "ok"
    /\ response'.r.incs = 1
    /\ Usage(requests', r.apiKey, today) = Usage(requests, r.apiKey, today) + 1
    /\ response'.used =
        (IF o.meta # 0 THEN o.meta ELSE Usage(requests', r.apiKey, today'))
    /\ response'.remaining = Max(0, DAILY_LIMIT - response'.used)
    /\ o.meta = 0 => response'.remaining = Left(requests', r.apiKey, today')

\* C19, amended: after a successful company or finances lookup the response
\* reports, after the request's one recordUsage, upstream's
\* today_request_count when the answer carries a non-zero one and otherwise the
\* tracker's currentUsage as read right after the recordUsage, and
\* remainingRequests is max(0, 100 - requestsUsedToday), which is the
\* tracker's remaining when the count is the tracker's.
C19_ReportsUpstreamOrTrackerFigures ==
    \A r \in BagToSet(inflight) :
        r.endpoint \in Lookups =>
            \A o \in {x \in Outcomes : x.status = 200 /\ x.hasData} :
                /\ ENABLED (LookupReturn(r, o) /\ Reported(r, o))
                /\ ~ENABLED (LookupReturn(r, o) /\ ~Reported(r, o))

\* A lookup was answered with upstream's count 7 and 93 remaining while the
\* tracker holds another count for its credential.
C19_Witness ==
    /\ response.status = "ok"
    /\ response.r.endpoint \in Lookups
    /\ response.r.incs = 1
    /\ response.used = 7
    /\ response.remaining = DAILY_LIMIT - 7
    /\ Usage(requests, response.r.apiKey, today) = DAILY_LIMIT

\* The credentials whose record this step changed.
Touched ==
    {k \in ApiKeys :
        \/ (getKey(k) \in DOMAIN requests') # (getKey(k) \in DOMAIN requests)
        \/ /\ getKey(k) \in DOMAIN requests
           /\ requests'[getKey(k)] # requests[getKey(k)]}

\* C20: distinct credentials have distinct records: recordUsage(c1) leaves
\* currentUsage(c2) and remaining(c2) as they were for every other credential
\* c2 and every day, and every step of the handler changes the record of one
\* credential at most, under every interleaving of the requests.
C20_CredentialsAreSeparate ==
    /\ [](\A c1, c2 \in ApiKeys : c1 # c2 =>
            /\ getKey(c1) # getKey(c2)
            /\ \A d \in Days :
                LET after == increment(requests, c1, today) IN
                /\ getCount(after, c2, d) = getCount(requests, c2, d)
                /\ getRemainingRequests(after, c2, d)
                    = getRemainingRequests(requests, c2, d)
                /\ (getKey(c2) \in DOMAIN after) = (getKey(c2) \in DOMAIN requests)
                /\ getKey(c2) \in DOMAIN requests
                    => after[getKey(c2)] = requests[getKey(c2)])
    /\ [][/\ Cardinality(Touched) <= 1
          /\ \A k \in Touched : \A c2 \in ApiKeys \ {k} : \A d \in Days :
                getCount(requests', c2, d) = getCount(requests, c2, d)]_vars

\* A lookup of one credential was counted while a lookup of the other, whose
\* count stands at 99, waits for upstream.
C20_Witness ==
    /\ response.status = "ok"
    /\ response.r.apiKey = "k2"
    /\ response.r.incs = 1
    /\ DOMAIN requests = {getKey("k1"), getKey("k2")}
    /\ requests[getKey("k2")] = [date |-> today, count |-> 1]
    /\ requests[getKey("k1")] = [date |-> today, count |-> DAILY_LIMIT - 1]
    /\ \E r \in BagToSet(inflight) : r.apiKey = "k1" /\ r.endpoint \in Lookups

\* C21: the store starts empty; a record is stored for a credential's digest
\* exactly when recordUsage has been called for the credential; no step
\* deletes a record, so the key set only grows; and every key is the digest
\* of a credential, not the credential.
C21_StoreLifecycle ==
    /\ requests = <<>> /\ recorded = {}
    /\ [](/\ \A k \in ApiKeys : (getKey(k) \in DOMAIN requests) <=> (k \in recorded)
          /\ DOMAIN requests \subseteq {<<"sha256", k>> : k \in ApiKeys})
    /\ [][DOMAIN requests \subseteq DOMAIN requests']_vars

\* Starting from the empty store, a request of each credential was counted,
\* one on an earlier day than the other; both records are stored.
C21_Witness ==
    /\ DOMAIN requests = {getKey("k1"), getKey("k2")}
    /\ recorded = ApiKeys
    /\ requests[getKey("k1")].date # requests[getKey("k2")].date
    /\ started = MaxRequests
    /\ inflight = EmptyBag

\* The step that resumes r with the upstream answer o.
Resumes(r, o) ==
    \/ CheckConnectionReturn(r, o)
    \/ LookupReturn(r, o)
    \/ BatchCompanyReturn(r, o)
    \/ BatchFinancesReturn(r, o)

\* The step calls recordUsage for r's credential exactly when the upstream
\* answer o is a success response and r is not a check-connection.
RecordsAfterSuccess(r, o) ==
    IF o.status = 200 /\ r.endpoint # "check-connection"
    THEN /\ Usage(requests', r.apiKey, today) = Usage(requests, r.apiKey, today) + 1
         /\ \A k \in ApiKeys \ {r.apiKey} :
                Usage(requests', k, today) = Usage(requests, k, today)
    ELSE requests' = requests

\* C22: recordUsage is called only in the step that resumes a request after
\* an upstream call of it that returned a success response, once for that
\* call; so a request has recorded fewer times than it has called while it
\* waits, no more than it has called when answered, and a company or finances
\* request at most once.
C22_RecordedAfterSuccessOnly ==
    /\ \A r \in BagToSet(inflight) :
        /\ r.incs < r.calls
        /\ r.endpoint \in Lookups => r.incs = 0
        /\ \A o \in (IF r.endpoint = "batch" THEN BatchOutcomes ELSE Outcomes) :
            /\ ENABLED (Resumes(r, o) /\ RecordsAfterSuccess(r, o))
            /\ ~ENABLED (Resumes(r, o) /\ ~RecordsAfterSuccess(r, o))
    /\ response.r.incs <= response.r.calls
    /\ response.r.endpoint \in Lookups => response.r.incs <= 1
    /\ (response.r.endpoint \in Lookups /\ response.http # 0) =>
        (response.r.incs = 1 <=>
            (response.status = "ok" \/ response.message = "not found"))

\* A batch waits for the finances call of its first identifier: it has made
\* two calls and recorded the one that returned.
C22_Witness ==
    \E r \in BagToSet(inflight) :
        /\ r.endpoint = "batch"
        /\ r.call = [endpoint |-> "/finances", inn |-> "i1"]
        /\ r.calls = 2
        /\ r.incs = 1
        /\ Usage(requests, r.apiKey, today) = DAILY_LIMIT - r.remainingRequests + 1

\* The identifiers of a batch that have ended, in the order they ended: each
\* is the last of results or of errors when it ends.
Ended(r) == Len(r.results) + Len(r.errors)

\* The batch r went on as r2 by one step of its loop.
LoopStep(r, r2) ==
    /\ r.endpoint = "batch"
    /\ r2.apiKey = r.apiKey
    /\ r2.innList = r.innList
    /\ r2.calls = r.calls + 1
    /\ IF r2.call.endpoint = "/finances"
       THEN /\ r.call.endpoint = "/company"
            /\ r2.idx = r.idx
            /\ r2.call.inn = r.call.inn
            /\ r2.results = r.results
            /\ r2.errors = r.errors
       ELSE /\ r2.call = [endpoint |-> "/company", inn |-> r.innList[r.idx + 1]]
            /\ r2.idx = r.idx + 1
            /\ Ended(r2) = Ended(r) + 1
            /\ \/ /\ r.call.endpoint = "/finances"
                  /\ r2.results = Append(r.results, r.innList[r.idx])
                  /\ r2.errors = r.errors
               \/ /\ r2.results = r.results
                  /\ Len(r2.errors) = Len(r.errors) + 1
                  /\ r2.errors[Len(r2.errors)].inn = r.innList[r.idx]

\* C23: a batch works through its list one call at a time: while it waits it
\* waits for one call, of the identifier at its position, all identifiers
\* before it have ended and none after it has started; and each step of its
\* loop goes from an identifier's company call to its finances call or, the
\* identifier having ended, to the next identifier's company call.
C23_BatchIsSequential ==
    /\ [](\A r \in BagToSet(inflight) : r.endpoint = "batch" =>
            /\ r.idx \in 1..Len(r.innList)
            /\ r.call.endpoint \in {"/company", "/finances"}
            /\ r.call.inn = r.innList[r.idx]
            /\ Ended(r) = r.idx - 1
            /\ r.calls - r.incs - Thrown(r) = 1
            /\ \A i \in 1..Len(r.innList) :
                (InList(r.innList[i], r.results) \/ InList(r.innList[i], ErrorInns(r)))
                    <=> i < r.idx)
    /\ [][\A r2 \in BagToSet(inflight') :
            (/\ r2.endpoint = "batch"
             /\ ~Received
             /\ CopiesIn(r2, inflight') > CopiesIn(r2, inflight))
            => \E r \in BagToSet(inflight) :
                /\ CopiesIn(r, inflight') < CopiesIn(r, inflight)
                /\ LoopStep(r, r2)]_vars

\* A batch waits for the company call of its second identifier after the
\* first ended in errors at its finances call.
C23_Witness ==
    \E r \in BagToSet(inflight) :
        /\ r.endpoint = "batch"
        /\ r.idx = 2
        /\ r.call = [endpoint |-> "/company", inn |-> "i2"]
        /\ r.calls = 3
        /\ r.results = <<>>
        /\ ErrorInns(r) = <<"i1">>

\* C24 (requests handled one after another): no record ever holds a count
\* above 100, so the count of a credential for the current day never exceeds
\* 100.
C24_SequentialCountWithinLimit ==
    /\ \A key \in DOMAIN requests : requests[key].count <= DAILY_LIMIT
    /\ \A k \in ApiKeys : getCount(requests, k, today) <= DAILY_LIMIT

\* A batch of one identifier admitted with exactly 2 requests left used both:
\* the count stands at 100.
C24_Witness ==
    /\ response.r.endpoint = "batch"
    /\ response.status = "ok"
    /\ response.r.remainingRequests = 2
    /\ response.r.incs = 2
    /\ response.used = DAILY_LIMIT
    /\ Usage(requests, response.r.apiKey, today) = DAILY_LIMIT

\* C25: whatever requests of a credential are in flight together, the count
\* stored for the credential today never exceeds 100.
C25_CountWithinLimitInterleaved ==
    \A k \in ApiKeys :
        (getKey(k) \in DOMAIN requests /\ requests[getKey(k)].date = today)
            => requests[getKey(k)].count <= DAILY_LIMIT

\* Upstream answers that are not a success response: a transport failure
\* (status 0) or a status outside 200..299, with or without a zero balance in
\* the body.
Failures ==
    {[status |-> st, balance0 |-> b, hasData |-> FALSE, meta |-> 0] :
        st \in {0, 301, 400, 401, 402, 403, 404, 429, 500, 503}, b \in BOOLEAN}

\* The error the claim assigns to a failure: its message and statusCode, 0
\* for no statusCode.
Classified(o) ==
    CASE o.status = 0 -> <<"fetch failed", 0>>
      [] o.status \in {401, 403} -> <<"invalid api key", 401>>
      [] o.status = 429 -> <<"upstream rate limit", 429>>
      [] o.status = 400 /\ o.balance0 -> <<"zero balance", 402>>
      [] OTHER -> <<"upstream error", o.status>>

\* The step answers the lookup r with the error of the failure o.
AnsweredAsClassified(r, o) ==
    /\ response'.r.apiKey = r.apiKey
    /\ response'.status = "error"
    /\ response'.message = Classified(o)[1]
    /\ response'.http = (IF Classified(o)[2] = 0 THEN 500 ELSE Classified(o)[2])

\* C26: callCheckoAPI throws, for every upstream answer that is not a success
\* response, exactly the error of its status: 401 for 401 and 403, 429 for
\* 429, 402 for 400 with a zero balance, the raw status for any other, and no
\* statusCode for a transport failure; and a lookup that gets the error is
\* answered with its statusCode, 500 when it has none.
C26_FailuresClassified ==
    /\ \A o \in Failures :
        /\ callCheckoAPI(o).threw
        /\ callCheckoAPI(o).message = Classified(o)[1]
        /\ callCheckoAPI(o).statusCode = Classified(o)[2]
    /\ \A r \in BagToSet(inflight) :
        r.endpoint \in Lookups =>
            \A o \in Outcomes \cap Failures :
                /\ ENABLED (LookupReturn(r, o) /\ AnsweredAsClassified(r, o))
                /\ ~ENABLED (LookupReturn(r, o) /\ ~AnsweredAsClassified(r, o))

\* A lookup whose upstream call was answered 401 or 403 was answered 401
\* "invalid api key".
C26_Witness ==
    /\ response.r.endpoint \in Lookups
    /\ response.r.calls = 1
    /\ response.status = "error"
    /\ response.http = 401
    /\ response.message = "invalid api key"
    /\ response.figures

\* C27: while the day stays the same, a step leaves currentUsage of every
\* credential as it was or raises it by exactly 1, and raises it exactly when
\* it calls recordUsage for the credential; when the day changes currentUsage
\* is 0.
C27_UsageMonotoneWithinDay ==
    [][\A k \in ApiKeys :
        LET before == getCount(requests, k, today)
            after == getCount(requests', k, today')
        IN  IF today' = today
            THEN /\ after \in {before, before + 1}
                 /\ after = before + 1 <=> increments'[k] = increments[k] + 1
            ELSE after = 0]_vars

\* A credential was counted once yesterday; today its currentUsage is 0 and
\* yesterday's record is still stored.
C27_Witness ==
    /\ today = 2
    /\ "k2" \in recorded
    /\ requests[getKey("k2")] = [date |-> 1, count |-> 1]
    /\ getCount(requests, "k2", today) = 0
    /\ increments["k2"] = 0

\* C28: every stored record has a count of 1 or more and a day that is not
\* after today; and right after recordUsage for a credential its record's day
\* is today and its currentUsage is the value recordUsage returned.
C28_RecordsWellFormed ==
    /\ \A key \in DOMAIN requests :
        /\ requests[key].count >= 1
        /\ requests[key].date <= today
    /\ \A k \in ApiKeys :
        LET after == increment(requests, k, today) IN
        /\ after[getKey(k)].date = today
        /\ after[getKey(k)].count >= 1
        /\ getCount(after, k, today) = incrementResult(requests, k, today)

\* A lookup of a credential with no record was counted and answered with the
\* count 1 that the increment returned.
C28_Witness ==
    /\ response.status = "ok"
    /\ response.r.endpoint \in Lookups
    /\ response.r.apiKey = "k2"
    /\ response.used = 1
    /\ response.remaining = DAILY_LIMIT - 1
    /\ requests[getKey("k2")] = [date |-> today, count |-> 1]
    /\ today = 2

\* A success response with empty data.
EmptyData == [status |-> 200, balance0 |-> FALSE, hasData |-> FALSE, meta |-> 0]

\* The batch this step resumed, as it is after the step: answered, or waiting
\* for its next call.
Resumed ==
    IF response'.http # 0 THEN response'.r
    ELSE CHOOSE r2 \in BagToSet(inflight') :
            CopiesIn(r2, inflight') > CopiesIn(r2, inflight)

\* The step ends r's current identifier in errors with 404 after one more
\* increment and with no further call for that identifier.
EndsNotFound(r) ==
    /\ Resumed.errors = Append(r.errors, [inn |-> r.innList[r.idx],
                                          statusCode |-> 404])
    /\ Resumed.results = r.results
    /\ Resumed.incs = r.incs + 1
    /\ Usage(requests', r.apiKey, today) = Usage(requests, r.apiKey, today) + 1
    /\ IF response'.http # 0
       THEN Resumed.calls = r.calls
       ELSE /\ Resumed.calls = r.calls + 1
            /\ Resumed.idx = r.idx + 1
            /\ Resumed.call = [endpoint |-> "/company",
                               inn |-> r.innList[r.idx + 1]]

\* The calls a waiting batch has made for its current identifier: all its
\* calls but those of earlier identifiers, which have returned; a returned
\* call was either counted or thrown, and of the current identifier one call
\* has returned when the batch waits for the finances call.
CallsForCurrent(r) ==
    r.calls - (r.incs + Thrown(r)
                - (IF r.call.endpoint = "/finances" THEN 1 ELSE 0))

\* The increments made for its current identifier.
IncsForCurrent(r) == IF r.call.endpoint = "/finances" THEN 1 ELSE 0

\* C29: in a batch, an identifier whose company call returns a success
\* response with empty data has had one call and gets one increment, no
\* finances call, and an errors entry with statusCode 404; an identifier whose
\* finances call returns empty data has had two calls and gets its second
\* increment and an errors entry, and is not in results.
C29_BatchEmptyData ==
    \A r \in BagToSet(inflight) :
        r.endpoint = "batch" =>
            /\ CallsForCurrent(r) = IncsForCurrent(r) + 1
            /\ r.call.endpoint = "/company" =>
                /\ ENABLED (BatchCompanyReturn(r, EmptyData) /\ EndsNotFound(r))
                /\ ~ENABLED (BatchCompanyReturn(r, EmptyData) /\ ~EndsNotFound(r))
            /\ r.call.endpoint = "/finances" =>
                /\ ENABLED (BatchFinancesReturn(r, EmptyData) /\ EndsNotFound(r))
                /\ ~ENABLED (BatchFinancesReturn(r, EmptyData) /\ ~EndsNotFound(r))

\* A batch of one identifier whose finances call returned empty data was
\* answered 404 after two calls and two increments.
C29_Witness ==
    /\ response.r.endpoint = "batch"
    /\ response.r.innList = <<"i1">>
    /\ response.status = "error"
    /\ response.http = 404
    /\ response.r.calls = 2
    /\ response.r.incs = 2
    /\ response.r.errors = <<[inn |-> "i1", statusCode |-> 404]>>
    /\ response.r.results = <<>>

\* C30: on every response to a request that is not OPTIONS the body status
\* is "ok" exactly when the HTTP status is 200, and a body status "error"
\* comes with an HTTP status that is not 200: one of the handler's own codes or
\* the upstream's non-success status.
C30_HttpAndBodyStatusAgree ==
    (response.http # 0 /\ response.r.endpoint # "options") =>
        /\ response.status \in {"ok", "error"}
        /\ response.status = "ok" <=> response.http = 200
        /\ response.status = "error" =>
            /\ response.http # 200
            /\ response.http \in {400, 401, 402, 404, 429, 500}

\* A request was answered "error" with HTTP 402 for upstream's zero balance.
C30_Witness ==
    /\ response.status = "error"
    /\ response.http = 402
    /\ response.message = "zero balance"
    /\ response.r.calls = 1

\* C31: the quota-exceeded response of a company or finances request carries
\* the tracker's currentUsage and remaining of the credential at that moment.
C31_QuotaExceededFigures ==
    (/\ response.r.endpoint \in Lookups
     /\ response.http = 429
     /\ response.message = "daily limit exhausted")
    => /\ response.figures
       /\ response.used = Usage(requests, response.r.apiKey, today)
       /\ response.remaining = Left(requests, response.r.apiKey, today)

\* The step answers the batch request r with no company loaded.
AllFailed(r) ==
    /\ r.endpoint = "batch"
    /\ inflight' = inflight (-) SetToBag({r})
    /\ response'.r.endpoint = "batch"
    /\ response'.r.calls = r.calls
    /\ Len(response'.r.results) = 0

\* The days the clock may show during the step.
StepDays == {d \in Days : today <= d /\ d <= today'}

\* C32 as stated: the error response of a batch whose identifiers all failed
\* has the first error's status code, carries one error per identifier, and
\* its requestsUsedToday counts every increment the batch made.
C32_FiguresCountEveryIncrement ==
    (/\ response.r.endpoint = "batch"
     /\ response.r.calls > 0
     /\ Len(response.r.results) = 0)
    => /\ response.status = "error"
       /\ response.http = response.r.errors[1].statusCode
       /\ ErrorInns(response.r) = response.r.innList
       /\ response.used >= response.r.incs

\* C32, amended: when every identifier of an admitted batch has failed, the
\* response is an error whose HTTP status is the status code stored for the
\* first identifier's error (500 for an error that had none), it carries one
\* error per identifier in input order, and its figures are the tracker's
\* currentUsage and remaining of the day of each read, read from the store
\* that holds every increment of the batch, the last one included: increments
\* made before a midnight that passed during the batch are not in them.
C32_AllFailedBatch ==
    [][\A r \in BagToSet(inflight) : AllFailed(r) =>
        LET r2 == response'.r
            k == r.apiKey
        IN  /\ response'.status = "error"
            /\ ErrorInns(r2) = r2.innList
            /\ response'.http = r2.errors[1].statusCode
            /\ response'.http \in {401, 404, 500}
            /\ r2.incs \in {r.incs, r.incs + 1}
            /\ Usage(requests', k, today) = Usage(requests, k, today) + (r2.incs - r.incs)
            /\ response'.figures
            /\ response'.used \in {Usage(requests', k, d) : d \in StepDays}
            /\ response'.remaining \in {Left(requests', k, d) : d \in StepDays}]_vars

\* A batch of two was answered 500: the first identifier's company call
\* failed in transport, the second's returned no data after being counted,
\* and the figures show the count that increment left.
C32_Witness ==
    /\ response.r.endpoint = "batch"
    /\ response.status = "error"
    /\ response.http = 500
    /\ response.r.errors = <<[inn |-> "i1", statusCode |-> 500],
                             [inn |-> "i2", statusCode |-> 404]>>
    /\ response.r.incs = 1
    /\ response.used = Usage(requests, response.r.apiKey, today)
    /\ response.used = 1
    /\ response.remaining = DAILY_LIMIT - 1

\* The message of the missing-input answer of an endpoint.
MissingInputMessage(endpoint) ==
    IF endpoint = "batch" THEN "api key and inn list required"
    ELSE "api key and inn required"

\* C34: a company, finances or batch request that names a credential with no
\* quota left and lacks its identifier (its list) is answered 401 with the
\* endpoint's missing-input message, never with a quota error, before any
\* read of the tracker: no quota check was made, nothing was called or
\* written.
C34_ValidationBeforeQuota ==
    [][(/\ Received
        /\ ReceivedRequest.endpoint \in Lookups \cup {"batch"}
        /\ ReceivedRequest.apiKey # ""
        /\ MissingInput(ReceivedRequest)
        /\ Left(requests, ReceivedRequest.apiKey, today) = 0)
       => (/\ response'.r = ReceivedRequest
           /\ response'.status = "error"
           /\ response'.http = 401
           /\ response'.message = MissingInputMessage(response'.r.endpoint)
           /\ ~response'.figures
           /\ response'.r.quotaReads = 0
           /\ AnsweredAtOnce)]_vars

\* A finances request with no identifier, for a credential whose count stands
\* at the limit, was answered 401 with no quota check, as the second request
\* answered at once; no upstream call was made.
C34_Witness ==
    /\ response.r.endpoint = "finances"
    /\ response.r.apiKey = "k1"
    /\ response.r.inn = ""
    /\ response.http = 401
    /\ response.message = "api key and inn required"
    /\ response.r.quotaReads = 0
    /\ Left(requests, "k1", today) = 0
    /\ responses = 2
    /\ inflight = EmptyBag
    /\ upstreamCalls["k1"] = DAILY_LIMIT

\* C33: in the variant src/unnamed/part_001 a check-connection, company or
\* finances request that has made its upstream call ends with a structured
\* response, and when the call threw that response is an "error" carrying the
\* credential's current requestsUsedToday and remainingRequests.
C33_ThrownCallAnsweredWithFigures ==
    (/\ response.r.endpoint \in {"check-connection", "company", "finances"}
     /\ response.r.calls = 1)
    => /\ response.http = 200
       /\ response.status \in {"ok", "error"}
       /\ response.status = "error" =>
            /\ response.figures
            /\ response.used = Usage(requests, response.r.apiKey, today)
            /\ response.remaining = Left(requests, response.r.apiKey, today)

====
